---- MODULE Spec2Model ----
(***************************************************************************)
(* Mark-and-sweep garbage collection of a content-addressable object       *)
(* database: mindvc/data/hashfile/gc.py, function gc.                      *)
(*                                                                         *)
(* A hash is a sequence of characters.  A store is a set of object paths.  *)
(* One gc call is a sequential process whose position is pc; every call it *)
(* makes on a collaborator (Tree.load, odb.all, odb._remove_unpacked_dir,  *)
(* odb.fs.remove) is appended to log with its outcome.                     *)
(***************************************************************************)
EXTENDS Naturals, Sequences, FiniteSets, TLC

\* ------------------------------------------------------------------ bounds
\* Longest usedRoots collection a caller passes.
MaxRoots == 2

\* The most objects another process adds to the store during one call.
MaxWrites == 1

\* ------------------------------------------------------------------ hashes
\* hash_info.HASH_DIR_SUFFIX, the reserved suffix of directory-type hashes.
HASH_DIR_SUFFIX == <<".", "d", "i", "r">>

HashA == <<"a">>
HashB == <<"b">>
HashT == <<"t">> \o HASH_DIR_SUFFIX
HashU == <<"u">> \o HASH_DIR_SUFFIX

\* The hashes that objects and roots are drawn from.
Hashes == {HashA, HashB, HashT, HashU}

\* str.endswith
EndsWith(s, suffix) ==
    /\ Len(s) >= Len(suffix)
    /\ SubSeq(s, Len(s) - Len(suffix) + 1, Len(s)) = suffix

\* gc._is_dir_hash; HashInfo.isdir is the same predicate on HashInfo.value.
IsDirHash(h) == EndsWith(h, HASH_DIR_SUFFIX)

DirHashes == {h \in Hashes : IsDirHash(h)}

Range(s) == {s[i] : i \in 1..Len(s)}

SeqsUpTo(S, n) == UNION {[1..m -> S] : m \in 0..n}

\* ------------------------------------------------------------------ stores
\* odb.oid_to_path: the storage location of a hash inside one store.
OidToPath(root, h) == [root |-> root, oid |-> h]

Files(root, S) == {OidToPath(root, h) : h \in S}

\* The hashes of the objects a store holds (what odb.all walks over).
Oids(files) == {p.oid : p \in files}

\* A removal that moves the object aside under a new name.
FsRemoveRename(files, path) ==
    (files \ {path}) \cup {[root |-> path.root, oid |-> << "~" >> \o path.oid]}

FsRemoveNoop(files, path) == files

\* odb.fs.remove(path): the path is gone afterwards; an absent path is not
\* an error (ENOENT is swallowed).
FsRemove(files, path) == files \ {path}

\* The content of a directory-snapshot object, as (relative path, child
\* hash) entries.  Content is a function of the hash: t.dir lists the blob
\* a; u.dir lists the nested directory t.dir and the blob b.
TreeEntries(h) ==
    CASE h = HashT -> << [path |-> "a", oid |-> HashA] >>
      [] h = HashU -> << [path |-> "t", oid |-> HashT],
                         [path |-> "b", oid |-> HashB] >>
      [] OTHER -> << >>

\* Tree.load(store, hash_info) returns the whole tree or fails: it fails when
\* the directory object is missing from the store, and it can fail when the
\* object is there (unparsable).  There are no partial results.
TreeLoadOutcomes(files, root, h) ==
    IF OidToPath(root, h) \in files THEN {TRUE, FALSE} ELSE {FALSE}

\* The entries of the tree and the entries of its directory-type entries.
TreeValuesDeep(h) ==
    LET direct == {TreeEntries(h)[i].oid : i \in 1..Len(TreeEntries(h))}
    IN  direct \cup
        UNION {{TreeEntries(d)[i].oid : i \in 1..Len(TreeEntries(d))} : d \in direct}

\* entry_obj.hash_info.value for _, entry_obj in tree
TreeValues(h) == {TreeEntries(h)[i].oid : i \in 1..Len(TreeEntries(h))}

\* ------------------------------------------------------------------ sorting
Reverse(s) == [i \in 1..Len(s) |-> s[Len(s) + 1 - i]]

\* Python orders False before True.
KeyLess(x, y) == (~x) /\ y

\* The place of element i in a stable ascending sort by the key _is_dir_hash:
\* after every element with a smaller key, and after the earlier elements with
\* an equal key.
Rank(s, i) ==
    Cardinality({j \in 1..Len(s) :
        \/ KeyLess(IsDirHash(s[j]), IsDirHash(s[i]))
        \/ (IsDirHash(s[j]) = IsDirHash(s[i]) /\ j < i)}) + 1

\* A stable ascending sort by the key _is_dir_hash.
StableSort(s) ==
    [p \in 1..Len(s) |-> s[CHOOSE i \in 1..Len(s) : Rank(s, i) = p]]

SortedAscending(hs) == StableSort(hs)

SortedReverseOnly(hs) == Reverse(StableSort(hs))

\* sorted(hashes, key=_is_dir_hash, reverse=True): the list is reversed,
\* sorted stably ascending, and reversed again.
SortedHashes(hs) == Reverse(StableSort(Reverse(hs)))

\* Every order in which odb.all(jobs) can yield the objects of the store,
\* whatever the number of jobs.
Enumerations(files, njobs) ==
    {f \in [1..Cardinality(Oids(files)) -> Oids(files)] :
        \A i, j \in DOMAIN f : i # j => f[i] # f[j]}

\* ------------------------------------------------------------------ state
VARIABLES
    odbFiles,     \* the object paths of the store being swept (odb)
    cacheFiles,   \* the object paths of the store passed as cache_odb, if any
    read_only,    \* odb.read_only
    used,         \* argument used: the caller's roots, a sequence of hash values
    jobs,         \* argument jobs: << >> for None, or << n >>
    cache_arg,    \* argument cache_odb: << >> for None, or << store name >>
    shallow,      \* argument shallow
    pc,           \* position of the call: idle, mark, sort, sweep, remove, done, raised
    err,          \* the error a raised call propagated
    cache_odb,    \* local cache_odb after "if not cache_odb": a store name
    idx,          \* position of the mark loop in used
    used_hashes,  \* local used_hashes
    hashes,       \* the materialized enumeration odb.all(jobs)
    order,        \* sorted(hashes, key=_is_dir_hash, reverse=True)
    k,            \* position of the sweep loop in order
    removed,      \* local removed
    result,       \* << >> until the call returns, then << removed >>
    log,          \* the collaborator calls of this gc call, in order
    odb0,         \* the hashes in odb when this gc call started
    prev,         \* the result of the call this one repeats: << >> when it repeats none
                  \* or the call raised, else << removed >>
    expect,       \* what one failure-free call with these arguments leaves of the
                  \* store the first call of this chain of repeated calls started on
    aborted       \* an earlier call of this chain raised in the sweep after it had
                  \* removed an object

\* The state of the Git wrapper (scmrepo/git/__init__.py): the repository and
\* the one context manager or iterator of class Git that is running.  A
\* reference name or revision is a sequence of tokens; << >> is None (or the
\* empty string: Python tests both as false).
VARIABLES
    head,         \* the repository's HEAD: [symbolic, target]
    stash,        \* the stash entries, newest first
    dirty,        \* the workspace has changes a stash push would save
    gop,          \* the running operation: none, detach_head, stash_workspace, branch_revs
    gpc,          \* its position: idle, body, finally, reset, iter, exited, raised
    gerr,         \* what raised, of a raised operation
    rev,          \* local rev: the argument of detach_head, the result of stash.push
    orig_head,    \* local orig_head of detach_head
    yielded,      \* what the context manager or iterator has yielded, in order
    commit,       \* local commit of branch_revs (its hexsha)
    end_rev,      \* argument end_rev of branch_revs
    glog,         \* the backend calls of the running operation, in order
    head0         \* HEAD when the running operation was entered

gitvars == << head, stash, dirty, gop, gpc, gerr, rev, orig_head, yielded, commit,
              end_rev, glog, head0 >>

gcvars == << odbFiles, cacheFiles, read_only, used, jobs, cache_arg, shallow, pc,
             err, cache_odb, idx, used_hashes, hashes, order, k, removed, result,
             log, odb0, prev, expect, aborted >>

vars == << gcvars, gitvars >>

args == << used, jobs, cache_arg, shallow >>

JobsArgs == {<< >>, << 4 >>}
CacheArgs == {<< >>, << "cache" >>}

\* The contents a cache store passed by the caller can have.
CacheContents == {Files("cache", S) : S \in SUBSET DirHashes}

StoreFiles(name) == IF name = "odb" THEN odbFiles ELSE cacheFiles

Event(op, store, h, ok) == [op |-> op, store |-> store, oid |-> h, ok |-> ok]

RefMain == << "refs", "/", "heads", "/", "main" >>

\* No operation of Git is running, on a repository at the branch main.
GitIdle ==
    /\ head = [symbolic |-> TRUE, target |-> RefMain]
    /\ stash = << >>
    /\ dirty = FALSE
    /\ gop = "none"
    /\ gpc = "idle"
    /\ gerr = "none"
    /\ rev = << >>
    /\ orig_head = << >>
    /\ yielded = << >>
    /\ commit = << >>
    /\ end_rev = << >>
    /\ glog = << >>
    /\ head0 = head

Init ==
    /\ GitIdle
    /\ odbFiles \in {Files("odb", S) : S \in SUBSET Hashes}
    /\ cacheFiles = {}
    /\ read_only \in BOOLEAN
    /\ used = << >>
    /\ jobs = << >>
    /\ cache_arg = << >>
    /\ shallow = TRUE
    /\ pc = "idle"
    /\ err = "none"
    /\ cache_odb = "odb"
    /\ idx = 1
    /\ used_hashes = {}
    /\ hashes = << >>
    /\ order = << >>
    /\ k = 1
    /\ removed = FALSE
    /\ result = << >>
    /\ log = << >>
    /\ odb0 = Oids(odbFiles)
    /\ prev = << >>
    /\ expect = Oids(odbFiles)
    /\ aborted = FALSE

Raise(kind) ==
    /\ pc' = "raised"
    /\ err' = kind

GuardNever(ro) == FALSE

\* gc.py line 7: if odb.read_only
GuardRaises(ro) == ro

\* The entry of gc with the cache_odb argument ignored.
EnterNoCache(roots, j, c, sh) ==
    /\ used' = roots
    /\ jobs' = j
    /\ cache_arg' = c
    /\ shallow' = sh
    /\ odb0' = Oids(odbFiles)
    /\ log' = << >>
    /\ idx' = 1
    /\ used_hashes' = {}
    /\ hashes' = << >>
    /\ order' = << >>
    /\ k' = 1
    /\ removed' = FALSE
    /\ result' = << >>
    /\ IF GuardRaises(read_only)
         THEN /\ Raise("Permission")
              /\ cache_odb' = "odb"
         ELSE /\ pc' = "mark"
              /\ err' = "none"
              /\ cache_odb' = "odb"
    /\ UNCHANGED << odbFiles, read_only >>

\* gc.py lines 1-11: entry of gc(odb, used, jobs, cache_odb, shallow), the
\* read-only guard, the cache_odb default and the empty used_hashes.
Enter(roots, j, c, sh) ==
    /\ used' = roots
    /\ jobs' = j
    /\ cache_arg' = c
    /\ shallow' = sh
    /\ odb0' = Oids(odbFiles)
    /\ log' = << >>
    /\ idx' = 1
    /\ used_hashes' = {}
    /\ hashes' = << >>
    /\ order' = << >>
    /\ k' = 1
    /\ removed' = FALSE
    /\ result' = << >>
    /\ IF GuardRaises(read_only)
         THEN /\ Raise("Permission")
              /\ cache_odb' = "odb"
         ELSE /\ pc' = "mark"
              /\ err' = "none"
              /\ cache_odb' = IF c = << >> THEN "odb" ELSE c[1]
    /\ UNCHANGED << odbFiles, read_only >>

\* The hashes that roots protect: the roots and, when sh is false, the
\* entries of every directory-type root's tree.
ProtectedOf(roots, sh) ==
    Range(roots) \cup
        (IF sh THEN {}
         ELSE UNION {TreeValues(r) : r \in {h \in Range(roots) : IsDirHash(h)}})

\* A caller invokes gc on the store with arguments of its choice; a cache
\* store it passes has contents of its own.
Call(roots, j, c, sh) ==
    /\ pc = "idle"
    /\ prev' = << >>
    /\ expect' = Oids(odbFiles) \cap ProtectedOf(roots, sh)
    /\ aborted' = FALSE
    /\ IF c = << >>
         THEN UNCHANGED cacheFiles
         ELSE cacheFiles' \in CacheContents
    /\ Enter(roots, j, c, sh)
    /\ UNCHANGED gitvars

\* A caller invokes gc once more with the arguments of the call that just
\* ended.  (A further call with other arguments starts from a store that
\* Init already covers, so it is a behaviour of Call.)
CallAgain ==
    /\ pc \in {"done", "raised"}
    /\ prev' = result
    /\ aborted' = (aborted \/ (pc = "raised" /\ err = "StorageIO"
                                 /\ Oids(odbFiles) # odb0))
    /\ UNCHANGED expect
    /\ UNCHANGED cacheFiles
    /\ Enter(used, jobs, cache_arg, shallow)
    /\ UNCHANGED gitvars

ExpandAlways(h, sh) == IsDirHash(h)

ExpandNever(h, sh) == FALSE

\* gc.py line 14: if hash_info.isdir and not shallow
NeedsExpand(h, sh) == IsDirHash(h) /\ ~sh

\* The mark loop with a failed Tree.load swallowed.
MarkSwallow ==
    /\ pc = "mark"
    /\ idx <= Len(used)
    /\ LET h == used[idx]
           marked == used_hashes \cup {h}
       IN  IF NeedsExpand(h, shallow)
             THEN \E ok \in TreeLoadOutcomes(StoreFiles(cache_odb), cache_odb, h) :
                  IF ok
                    THEN /\ used_hashes' = marked \cup TreeValues(h)
                         /\ log' = Append(log, Event("load", cache_odb, h, TRUE))
                         /\ idx' = idx + 1
                         /\ UNCHANGED << pc, err >>
                    ELSE /\ used_hashes' = marked
                         /\ log' = Append(log, Event("load", cache_odb, h, FALSE))
                         /\ idx' = idx + 1
                         /\ UNCHANGED << pc, err >>
             ELSE /\ used_hashes' = marked
                  /\ idx' = idx + 1
                  /\ UNCHANGED << pc, err, log >>
    /\ UNCHANGED << odbFiles, cacheFiles, read_only, args, cache_odb, hashes,
                    order, k, removed, result, odb0, prev, expect, aborted >>
    /\ UNCHANGED gitvars

\* gc.py lines 12-18: one iteration of the mark loop.
Mark ==
    /\ pc = "mark"
    /\ idx <= Len(used)
    /\ LET h == used[idx]
           marked == used_hashes \cup {h}
       IN  IF NeedsExpand(h, shallow)
             THEN \E ok \in TreeLoadOutcomes(StoreFiles(cache_odb), cache_odb, h) :
                  IF ok
                    THEN /\ used_hashes' = marked \cup TreeValues(h)
                         /\ log' = Append(log, Event("load", cache_odb, h, TRUE))
                         /\ idx' = idx + 1
                         /\ UNCHANGED << pc, err >>
                    ELSE /\ used_hashes' = marked
                         /\ log' = Append(log, Event("load", cache_odb, h, FALSE))
                         /\ Raise("TreeLoad")
                         /\ UNCHANGED idx
             ELSE /\ used_hashes' = marked
                  /\ idx' = idx + 1
                  /\ UNCHANGED << pc, err, log >>
    /\ UNCHANGED << odbFiles, cacheFiles, read_only, args, cache_odb, hashes,
                    order, k, removed, result, odb0, prev, expect, aborted >>
    /\ UNCHANGED gitvars

\* The enumeration started before the mark loop has ended.
EnumerateEarly ==
    /\ pc = "mark"
    /\ \E e \in Enumerations(odbFiles, jobs) : hashes' = e
    /\ removed' = FALSE
    /\ log' = Append(log, Event("all", "odb", << >>, TRUE))
    /\ pc' = "sort"
    /\ UNCHANGED << odbFiles, cacheFiles, read_only, args, err, cache_odb, idx,
                    used_hashes, order, k, result, odb0, prev, expect, aborted >>
    /\ UNCHANGED gitvars

\* gc.py lines 25-28: removed = False, and hashes, the iterator over
\* odb.all(jobs) wrapped in QueryingProgress; it yields the objects of the
\* store in an order of the store's choosing.
Enumerate ==
    /\ pc = "mark"
    /\ idx > Len(used)
    /\ \E e \in Enumerations(odbFiles, jobs) : hashes' = e
    /\ removed' = FALSE
    /\ log' = Append(log, Event("all", "odb", << >>, TRUE))
    /\ pc' = "sort"
    /\ UNCHANGED << odbFiles, cacheFiles, read_only, args, err, cache_odb, idx,
                    used_hashes, order, k, result, odb0, prev, expect, aborted >>
    /\ UNCHANGED gitvars

\* gc.py line 29: sorted(hashes, key=_is_dir_hash, reverse=True) consumes the
\* iterator whole, leaving it exhausted, before the loop body first runs.
Sort ==
    /\ pc = "sort"
    /\ order' = SortedHashes(hashes)
    /\ hashes' = << >>
    /\ k' = 1
    /\ pc' = "sweep"
    /\ UNCHANGED << odbFiles, cacheFiles, read_only, args, err, cache_odb, idx,
                    used_hashes, removed, result, log, odb0, prev, expect, aborted >>
    /\ UNCHANGED gitvars

SkipNever(h, uh) == FALSE

SkipDirs(h, uh) == h \in uh \/ IsDirHash(h)

\* gc.py line 30: if hash_ in used_hashes
Skip(h, uh) == h \in uh

\* The sweep loop not advancing past a hash that is in used_hashes.
SweepSkipStuck ==
    /\ pc = "sweep"
    /\ k <= Len(order)
    /\ Skip(order[k], used_hashes)
    /\ UNCHANGED vars

\* The sweep loop left (break) at the first hash that is in used_hashes.
SweepSkipBreak ==
    /\ pc = "sweep"
    /\ k <= Len(order)
    /\ Skip(order[k], used_hashes)
    /\ k' = Len(order) + 1
    /\ UNCHANGED << odbFiles, cacheFiles, read_only, args, pc, err, cache_odb,
                    idx, used_hashes, hashes, order, removed, result, log, odb0,
                    prev, expect, aborted >>
    /\ UNCHANGED gitvars

\* gc.py lines 29-31: the next hash is in used_hashes: continue.
SweepSkip ==
    /\ pc = "sweep"
    /\ k <= Len(order)
    /\ Skip(order[k], used_hashes)
    /\ k' = k + 1
    /\ UNCHANGED << odbFiles, cacheFiles, read_only, args, pc, err, cache_odb,
                    idx, used_hashes, hashes, order, removed, result, log, odb0,
                    prev, expect, aborted >>
    /\ UNCHANGED gitvars

\* The hook called for every unused hash, directory-type or not.
HookAny ==
    /\ pc = "sweep"
    /\ k <= Len(order)
    /\ ~Skip(order[k], used_hashes)
    /\ \E ok \in BOOLEAN :
          /\ log' = Append(log, Event("hook", "odb", order[k], ok))
          /\ IF ok
               THEN /\ pc' = "remove"
                    /\ UNCHANGED err
               ELSE Raise("StorageIO")
    /\ UNCHANGED << odbFiles, cacheFiles, read_only, args, cache_odb, idx,
                    used_hashes, hashes, order, k, removed, result, odb0, prev, expect, aborted >>
    /\ UNCHANGED gitvars

\* gc.py lines 29-36: the next hash is unused and directory-type:
\* odb._remove_unpacked_dir(hash_) is called first; it returns or raises.
Hook ==
    /\ pc = "sweep"
    /\ k <= Len(order)
    /\ ~Skip(order[k], used_hashes)
    /\ IsDirHash(order[k])
    /\ \E ok \in BOOLEAN :
          /\ log' = Append(log, Event("hook", "odb", order[k], ok))
          /\ IF ok
               THEN /\ pc' = "remove"
                    /\ UNCHANGED err
               ELSE Raise("StorageIO")
    /\ UNCHANGED << odbFiles, cacheFiles, read_only, args, cache_odb, idx,
                    used_hashes, hashes, order, k, removed, result, odb0, prev, expect, aborted >>
    /\ UNCHANGED gitvars

RemovedKept(r) == r

\* gc.py line 38: removed = True
RemovedAfterRemove(r) == TRUE

\* fs.remove with its failure swallowed: the loop goes on to the next hash.
RemoveContinue ==
    /\ \/ pc = "remove"
       \/ /\ pc = "sweep"
          /\ k <= Len(order)
          /\ ~Skip(order[k], used_hashes)
          /\ ~IsDirHash(order[k])
    /\ \E ok \in BOOLEAN :
          /\ log' = Append(log, Event("remove", "odb", order[k], ok))
          /\ IF ok
               THEN /\ odbFiles' = FsRemove(odbFiles, OidToPath("odb", order[k]))
                    /\ removed' = RemovedAfterRemove(removed)
                    /\ k' = k + 1
                    /\ pc' = "sweep"
                    /\ UNCHANGED err
               ELSE /\ k' = k + 1
                    /\ pc' = "sweep"
                    /\ UNCHANGED << odbFiles, removed, err >>
    /\ UNCHANGED << cacheFiles, read_only, args, cache_odb, idx, used_hashes,
                    hashes, order, result, odb0, prev, expect, aborted >>
    /\ UNCHANGED gitvars

\* gc.py lines 29-38: odb.fs.remove(path), reached after the hook of an
\* unused directory-type hash or directly for an unused plain hash, returns
\* or raises; removed = True.
Remove ==
    /\ \/ pc = "remove"
       \/ /\ pc = "sweep"
          /\ k <= Len(order)
          /\ ~Skip(order[k], used_hashes)
          /\ ~IsDirHash(order[k])
    /\ \E ok \in BOOLEAN :
          /\ log' = Append(log, Event("remove", "odb", order[k], ok))
          /\ IF ok
               THEN /\ odbFiles' = FsRemove(odbFiles, OidToPath("odb", order[k]))
                    /\ removed' = RemovedAfterRemove(removed)
                    /\ k' = k + 1
                    /\ pc' = "sweep"
                    /\ UNCHANGED err
               ELSE /\ Raise("StorageIO")
                    /\ UNCHANGED << odbFiles, removed, k >>
    /\ UNCHANGED << cacheFiles, read_only, args, cache_odb, idx, used_hashes,
                    hashes, order, result, odb0, prev, expect, aborted >>
    /\ UNCHANGED gitvars

\* The loop iterating over a live listing of the store: an object that
\* appeared during the sweep is yielded after the others.
ReturnRelist ==
    /\ pc = "sweep"
    /\ k > Len(order)
    /\ IF Oids(odbFiles) \ Range(order) # {}
         THEN /\ \E h \in Oids(odbFiles) \ Range(order) : order' = Append(order, h)
              /\ UNCHANGED << pc, result >>
         ELSE /\ pc' = "done"
              /\ result' = << removed >>
              /\ UNCHANGED order
    /\ UNCHANGED << odbFiles, cacheFiles, read_only, args, err, cache_odb, idx,
                    used_hashes, hashes, k, removed, log, odb0, prev, expect, aborted >>
    /\ UNCHANGED gitvars

\* gc.py line 40: return removed
Return ==
    /\ pc = "sweep"
    /\ k > Len(order)
    /\ pc' = "done"
    /\ result' = << removed >>
    /\ UNCHANGED << odbFiles, cacheFiles, read_only, args, err, cache_odb, idx,
                    used_hashes, hashes, order, k, removed, log, odb0, prev, expect, aborted >>
    /\ UNCHANGED gitvars

Next ==
    \/ \E roots \in SeqsUpTo(Hashes, MaxRoots), j \in JobsArgs, c \in CacheArgs,
          sh \in BOOLEAN : Call(roots, j, c, sh)
    \/ CallAgain
    \/ Mark
    \/ Enumerate
    \/ Sort
    \/ SweepSkip
    \/ Hook
    \/ Remove
    \/ Return

Spec == Init /\ [][Next]_vars

\* Another process adds an object to the store while the sweep of a call
\* runs, after sorted() has consumed the enumeration.  (An object added
\* earlier is part of the store the enumeration lists.)
ExtWrite ==
    /\ pc \in {"sweep", "remove"}
    /\ Cardinality({i \in DOMAIN log : log[i].op = "write"}) < MaxWrites
    /\ \E h \in Hashes \ Oids(odbFiles) :
          /\ odbFiles' = odbFiles \cup {OidToPath("odb", h)}
          /\ log' = Append(log, Event("write", "odb", h, TRUE))
    /\ UNCHANGED << cacheFiles, read_only, args, pc, err, cache_odb, idx,
                    used_hashes, hashes, order, k, removed, result, odb0, prev,
                    expect, aborted >>
    /\ UNCHANGED gitvars

NextExt == Next \/ ExtWrite

\* gc running against a store that another process writes to.
SpecExt == Init /\ [][NextExt]_vars

\* The statements of a running call; the interpreter keeps executing them.
Step == Mark \/ Enumerate \/ Sort \/ SweepSkip \/ Hook \/ Remove \/ Return

FairSpec == Spec /\ WF_vars(Step)

\* ------------------------------------------------------------------ Git
\* Git.LOCAL_BRANCH_PREFIX, "refs/heads/", as tokens.
LOCAL_BRANCH_PREFIX == << "refs", "/", "heads", "/" >>

RefDev == << "refs", "/", "heads", "/", "dev" >>
RefRemote == << "refs", "/", "remotes", "/", "origin", "/", "main" >>
RefHEAD == << "HEAD" >>

\* The commits of the repository, by hexsha.
Commit1 == << "c1" >>
Commit2 == << "c2" >>
Commit3 == << "c3" >>
Commit4 == << "c4" >>
CommitS == << "s1" >>
Commits == {Commit1, Commit2, Commit3, Commit4, CommitS}

\* commit.parents: c1 is the root, c2 and s1 are children of c1, c3 of c2,
\* and c4 merges s1 into c3 (first parent c3).
Parents(c) ==
    CASE c = Commit2 -> << Commit1 >>
      [] c = Commit3 -> << Commit2 >>
      [] c = CommitS -> << Commit1 >>
      [] c = Commit4 -> << Commit3, CommitS >>
      [] OTHER -> << >>

\* The commit each reference points to.
Tip(ref) ==
    CASE ref = RefMain -> Commit4
      [] ref = RefDev -> CommitS
      [] ref = RefRemote -> Commit2
      [] OTHER -> ref

\* str.startswith
StartsWith(s, prefix) ==
    Len(s) >= Len(prefix) /\ SubSeq(s, 1, Len(prefix)) = prefix

\* The values HEAD can have: on a local branch, a symbolic reference to
\* another reference, or detached at a commit.
Heads ==
    {[symbolic |-> TRUE, target |-> r] : r \in {RefMain, RefDev, RefRemote}}
    \cup {[symbolic |-> FALSE, target |-> c] : c \in {Commit2, Commit3}}

\* get_ref("HEAD", follow): the commit HEAD resolves to, or with follow=False
\* what HEAD holds itself (the name it points to, or the commit when detached).
GetRef(h, follow) == IF follow THEN Tip(h.target) ELSE h.target

\* The commit a revision names when HEAD is h.
ResolveRev(r, h) == IF r = RefHEAD THEN Tip(h.target) ELSE Tip(r)

\* set_ref("HEAD", new_ref, symbolic=symbolic)
SetRef(new_ref, symbolic) == [symbolic |-> symbolic, target |-> new_ref]

GEvent(op, arg, sym, ok) == [op |-> op, arg |-> arg, sym |-> sym, ok |-> ok]

\* The revisions a caller passes to detach_head: None, "HEAD", a commit, a
\* branch.
RevArgs == {<< >>, RefHEAD, Commit2, RefDev}

\* No gc call is running or has run.
GcIdle ==
    /\ odbFiles = {}
    /\ cacheFiles = {}
    /\ read_only = FALSE
    /\ used = << >>
    /\ jobs = << >>
    /\ cache_arg = << >>
    /\ shallow = TRUE
    /\ pc = "idle"
    /\ err = "none"
    /\ cache_odb = "odb"
    /\ idx = 1
    /\ used_hashes = {}
    /\ hashes = << >>
    /\ order = << >>
    /\ k = 1
    /\ removed = FALSE
    /\ result = << >>
    /\ log = << >>
    /\ odb0 = {}
    /\ prev = << >>
    /\ expect = {}
    /\ aborted = FALSE

StashA == << "w0" >>

\* A repository in any state, with no operation of Git running.
InitGit ==
    /\ GcIdle
    /\ head \in Heads
    /\ stash \in {<< >>, << StashA >>}
    /\ dirty \in BOOLEAN
    /\ gop = "none"
    /\ gpc = "idle"
    /\ gerr = "none"
    /\ rev = << >>
    /\ orig_head = << >>
    /\ yielded = << >>
    /\ commit = << >>
    /\ end_rev = << >>
    /\ glog = << >>
    /\ head0 = head

\* __init__.py lines 496-518: detach_head up to its yield: rev defaults to
\* "HEAD", orig_head is read without following HEAD, checkout(rev,
\* detach=True) detaches HEAD or raises, and HEAD's commit is yielded.
DetachEnter(r) ==
    /\ gpc = "idle"
    /\ gop' = "detach_head"
    /\ head0' = head
    /\ rev' = (IF r = << >> THEN RefHEAD ELSE r)
    /\ orig_head' = GetRef(head, FALSE)
    /\ \E ok \in BOOLEAN :
          /\ glog' = IF ok
                       THEN << GEvent("checkout", rev', FALSE, TRUE),
                               GEvent("yield", ResolveRev(rev', head), FALSE, TRUE) >>
                       ELSE << GEvent("checkout", rev', FALSE, FALSE) >>
          /\ IF ok
               THEN /\ head' = [symbolic |-> FALSE, target |-> ResolveRev(rev', head)]
                    /\ yielded' = << GetRef(head', TRUE) >>
                    /\ gpc' = "body"
                    /\ UNCHANGED gerr
               ELSE /\ gpc' = "raised"
                    /\ gerr' = "checkout"
                    /\ UNCHANGED << head, yielded >>
    /\ UNCHANGED << stash, dirty, commit, end_rev >>
    /\ UNCHANGED gcvars

\* The body of the with statement moves HEAD (a commit, a checkout).
BodyMoveHead ==
    /\ gpc = "body"
    /\ \E h \in Heads : head' = h /\ h # head
    /\ UNCHANGED << stash, dirty, gop, gpc, gerr, rev, orig_head, yielded, commit,
                    end_rev, glog, head0 >>
    /\ UNCHANGED gcvars

\* The body of the with statement changes the workspace.
BodyEdit ==
    /\ gpc = "body"
    /\ ~dirty
    /\ dirty' = TRUE
    /\ UNCHANGED << head, stash, gop, gpc, gerr, rev, orig_head, yielded, commit,
                    end_rev, glog, head0 >>
    /\ UNCHANGED gcvars

\* The body of the with statement finishes: it falls off its end, or raises.
BodyEnd ==
    /\ gpc = "body"
    /\ \E raises \in BOOLEAN :
          /\ gerr' = (IF raises THEN "body" ELSE "none")
          /\ glog' = Append(glog, GEvent("body_end", << >>, FALSE, ~raises))
    /\ gpc' = "finally"
    /\ UNCHANGED << head, stash, dirty, gop, rev, orig_head, yielded, commit,
                    end_rev, head0 >>
    /\ UNCHANGED gcvars

\* HEAD restored only when the body did not raise (no try/finally).
DetachRestoreOnSuccess ==
    /\ gop = "detach_head"
    /\ gpc = "finally"
    /\ LET symbolic == StartsWith(orig_head, LOCAL_BRANCH_PREFIX)
       IN  IF gerr = "body"
             THEN /\ gpc' = "raised"
                  /\ UNCHANGED << head, glog, gerr >>
             ELSE /\ glog' = Append(glog, GEvent("set_ref", orig_head, symbolic, TRUE))
                  /\ head' = SetRef(orig_head, symbolic)
                  /\ gpc' = "reset"
                  /\ UNCHANGED gerr
    /\ UNCHANGED << stash, dirty, gop, rev, orig_head, yielded, commit, end_rev, head0 >>
    /\ UNCHANGED gcvars

\* __init__.py lines 519-532: the finally clause up to set_ref: symbolic is
\* whether orig_head starts with LOCAL_BRANCH_PREFIX, and
\* set_ref("HEAD", orig_head, symbolic=symbolic) returns or raises.
DetachRestore ==
    /\ gop = "detach_head"
    /\ gpc = "finally"
    /\ LET symbolic == StartsWith(orig_head, LOCAL_BRANCH_PREFIX)
       IN  \E ok \in BOOLEAN :
             /\ glog' = Append(glog, GEvent("set_ref", orig_head, symbolic, ok))
             /\ IF ok
                  THEN /\ head' = SetRef(orig_head, symbolic)
                       /\ gpc' = "reset"
                       /\ UNCHANGED gerr
                  ELSE /\ gpc' = "raised"
                       /\ gerr' = "set_ref"
                       /\ UNCHANGED head
    /\ UNCHANGED << stash, dirty, gop, rev, orig_head, yielded, commit, end_rev, head0 >>
    /\ UNCHANGED gcvars

\* __init__.py lines 533-534: self.reset() returns or raises; then the
\* context is left, by the body's exception if it raised one.
DetachReset ==
    /\ gop = "detach_head"
    /\ gpc = "reset"
    /\ \E ok \in BOOLEAN :
          /\ glog' = Append(glog, GEvent("reset", << >>, FALSE, ok))
          /\ IF ok
               THEN /\ gpc' = (IF gerr = "body" THEN "raised" ELSE "exited")
                    /\ UNCHANGED gerr
               ELSE /\ gpc' = "raised"
                    /\ gerr' = "reset"
    /\ UNCHANGED << head, stash, dirty, gop, rev, orig_head, yielded, commit,
                    end_rev, head0 >>
    /\ UNCHANGED gcvars

StashB == << "w1" >>

\* __init__.py lines 543-546: stash_workspace up to its yield:
\* rev = self.stash.push() saves the workspace changes and returns the stash
\* commit, returns None when there is nothing to save, or raises; rev is
\* yielded.
StashEnter ==
    /\ gpc = "idle"
    /\ gop' = "stash_workspace"
    /\ head0' = head
    /\ \E ok \in BOOLEAN :
          IF ok
            THEN /\ rev' = (IF dirty THEN StashB ELSE << >>)
                 /\ stash' = (IF dirty THEN << StashB >> \o stash ELSE stash)
                 /\ dirty' = FALSE
                 /\ glog' = << GEvent("push", rev', FALSE, TRUE),
                               GEvent("yield", rev', FALSE, TRUE) >>
                 /\ yielded' = << rev' >>
                 /\ gpc' = "body"
                 /\ UNCHANGED gerr
            ELSE /\ glog' = << GEvent("push", << >>, FALSE, FALSE) >>
                 /\ gpc' = "raised"
                 /\ gerr' = "push"
                 /\ UNCHANGED << rev, stash, dirty, yielded >>
    /\ UNCHANGED << head, orig_head, commit, end_rev >>
    /\ UNCHANGED gcvars

\* The finally clause popping whatever push returned.
PopAlways(r) == TRUE

\* __init__.py line 548: if rev
PopNeeded(r) == r # << >>

\* __init__.py lines 547-550: the finally clause: self.stash.pop() when rev
\* is true; pop restores the newest stash entry into the workspace or
\* raises.  Then the context is left, by the body's exception if it raised
\* one.
StashExit ==
    /\ gop = "stash_workspace"
    /\ gpc = "finally"
    /\ IF PopNeeded(rev)
         THEN \E ok \in BOOLEAN :
                /\ glog' = Append(glog, GEvent("pop", << >>, FALSE, ok))
                /\ IF ok /\ stash # << >>
                     THEN /\ stash' = Tail(stash)
                          /\ dirty' = TRUE
                          /\ gpc' = (IF gerr = "body" THEN "raised" ELSE "exited")
                          /\ UNCHANGED gerr
                     ELSE /\ gpc' = "raised"
                          /\ gerr' = "pop"
                          /\ UNCHANGED << stash, dirty >>
         ELSE /\ gpc' = (IF gerr = "body" THEN "raised" ELSE "exited")
              /\ UNCHANGED << stash, dirty, gerr, glog >>
    /\ UNCHANGED << head, gop, rev, orig_head, yielded, commit, end_rev, head0 >>
    /\ UNCHANGED gcvars

\* The branches a caller passes to branch_revs.
BranchArgs == {RefMain, RefDev, RefRemote, RefHEAD}

\* The end_rev arguments: None or the hexsha of a commit.
EndRevArgs == {<< >>} \cup Commits

\* funcy.first: the first element, or None.
First(s) == IF s = << >> THEN << >> ELSE Head(s)

\* __init__.py line 487: commit = self.resolve_commit(branch); the generator
\* has yielded nothing yet.
BranchRevsStart(branch, e) ==
    /\ gpc = "idle"
    /\ gop' = "branch_revs"
    /\ head0' = head
    /\ end_rev' = e
    /\ commit' = ResolveRev(branch, head)
    /\ yielded' = << >>
    /\ glog' = << GEvent("resolve_commit", branch, FALSE, TRUE) >>
    /\ gpc' = "iter"
    /\ UNCHANGED << head, stash, dirty, gerr, rev, orig_head >>
    /\ UNCHANGED gcvars

\* __init__.py lines 488-493: one turn of the loop: yield commit.hexsha, then
\* return when the first parent is None or equals end_rev, else resolve the
\* first parent.
BranchRevsNext ==
    /\ gop = "branch_revs"
    /\ gpc = "iter"
    /\ commit # << >>
    /\ yielded' = Append(yielded, commit)
    /\ LET parent == First(Parents(commit))
       IN  IF parent = << >> \/ parent = end_rev
             THEN /\ gpc' = "exited"
                  /\ UNCHANGED << commit, glog >>
             ELSE /\ commit' = Tip(parent)
                  /\ glog' = Append(glog, GEvent("resolve_commit", parent, FALSE, TRUE))
                  /\ UNCHANGED gpc
    /\ UNCHANGED << head, stash, dirty, gop, gerr, rev, orig_head, end_rev, head0 >>
    /\ UNCHANGED gcvars

NextGit ==
    \/ \E r \in RevArgs : DetachEnter(r)
    \/ StashEnter
    \/ \E branch \in BranchArgs, e \in EndRevArgs : BranchRevsStart(branch, e)
    \/ BodyMoveHead
    \/ BodyEdit
    \/ BodyEnd
    \/ DetachRestore
    \/ DetachReset
    \/ StashExit
    \/ BranchRevsNext

\* One operation of Git on a repository, gc not running.
SpecGit == InitGit /\ [][NextGit]_vars

\* ------------------------------------------------------------------ claims
Objs == Oids(odbFiles)

DirRoots == {h \in Range(used) : IsDirHash(h)}

\* The hashes the caller's roots protect: the roots and, in deep mode, the
\* entries of every directory-type root's tree.
Protected ==
    Range(used) \cup
        (IF shallow THEN {} ELSE UNION {TreeValues(r) : r \in DirRoots})

Calls(op) == {i \in DOMAIN log : log[i].op = op}

Done(op, h) == {i \in DOMAIN log : log[i] = Event(op, "odb", h, TRUE)}

\* The hashes the sweep loop has passed without skipping them.
Swept == {order[j] : j \in {i \in 1..(k - 1) : i <= Len(order) /\ order[i] \notin used_hashes}}

\* C1 (safety): at every point of a gc call, and so after it returns, every
\* protected hash (a root, or in deep mode an entry of a directory root's
\* tree) that was in the store when the call started is still in the store,
\* and fs.remove has not been called for any protected hash.
C1_Safety ==
    /\ \A h \in Protected : h \in odb0 => h \in Objs
    /\ \A i \in Calls("remove") : log[i].oid \notin Protected

C1_Witness ==
    /\ pc = "done"
    /\ ~shallow
    /\ result = << TRUE >>
    /\ \E h \in Protected \ Range(used) : h \in odb0

\* C2 (sweep completeness): when gc returns, every enumerated hash outside
\* used_hashes has been removed: the store holds exactly the objects it held
\* at the start that are in used_hashes.
C2_SweepComplete ==
    pc = "done" =>
        /\ Range(order) = odb0
        /\ \A h \in Range(order) \ used_hashes : Done("remove", h) # {}
        /\ Objs = odb0 \cap used_hashes

C2_Witness ==
    /\ pc = "done"
    /\ Objs # odb0
    /\ Objs # {}

\* C3 (removal ordering): whenever fs.remove is called for a plain hash, the
\* hook and fs.remove of every unused directory-type hash of the enumeration
\* have already completed, the hook before the remove.
C3_DirsFirst ==
    \A j \in Calls("remove") :
        ~IsDirHash(log[j].oid) =>
            \A d \in Range(order) \ used_hashes :
                IsDirHash(d) =>
                    \E i1 \in Done("hook", d), i2 \in Done("remove", d) :
                        i1 < i2 /\ i2 < j

C3_Witness ==
    /\ pc = "done"
    /\ \E j \in Calls("remove") : ~IsDirHash(log[j].oid)
    /\ \E j \in Calls("remove") : IsDirHash(log[j].oid)

\* C4 (read-only guard): a call on a read-only store has raised the
\* Permission error with no collaborator call made, nothing marked and the
\* store unchanged; and only a read-only store raises it.
C4_ReadOnlyGuard ==
    /\ (read_only /\ pc # "idle") =>
            /\ pc = "raised"
            /\ err = "Permission"
            /\ log = << >>
            /\ used_hashes = {}
            /\ result = << >>
            /\ Objs = odb0
    /\ (pc = "raised" /\ err = "Permission") => read_only

C4_Witness ==
    /\ pc = "raised"
    /\ err = "Permission"
    /\ used # << >>
    /\ Objs \ Range(used) # {}

\* C5 (idempotence): a call that repeats the arguments of a call that just
\* returned makes no hook or remove call, returns False and leaves the store
\* as the first call left it.
C5_Idempotent ==
    prev # << >> =>
        /\ Calls("hook") = {}
        /\ Calls("remove") = {}
        /\ Objs = odb0
        /\ pc = "done" => result = << FALSE >>

C5_Witness ==
    /\ pc = "done"
    /\ prev = << TRUE >>
    /\ odb0 # {}

\* C6 (shallow mode): with shallow = True no tree is loaded and, when the
\* call returns, exactly the roots themselves are kept; with the store
\* {a, t.dir} and roots [t.dir], a is removed, t.dir is kept and the result
\* is True.
C6_Shallow ==
    shallow =>
        /\ Calls("load") = {}
        /\ pc = "done" => Objs = odb0 \cap Range(used)
        /\ (pc = "done" /\ used = << HashT >> /\ odb0 = {HashA, HashT}) =>
                (Objs = {HashT} /\ result = << TRUE >>)

C6_Witness ==
    /\ pc = "done"
    /\ shallow
    /\ used = << HashT >>
    /\ odb0 = {HashA, HashT}

\* C7 (deep mode): with shallow = False, once the mark loop has ended every
\* directory-type root occurrence has been loaded from cache_odb and every
\* entry of its tree is in used_hashes and is never removed; with the store
\* {a, t.dir} and roots [t.dir], both are kept and the result is False.
C7_Deep ==
    (~shallow /\ pc \in {"sort", "sweep", "remove", "done"}) =>
        /\ \A i \in DOMAIN used :
              IsDirHash(used[i]) =>
                  /\ \E n \in Calls("load") :
                        log[n] = Event("load", cache_odb, used[i], TRUE)
                  /\ TreeValues(used[i]) \subseteq used_hashes
                  /\ \A c \in TreeValues(used[i]) : c \in odb0 => c \in Objs
        /\ Cardinality(Calls("load")) =
               Cardinality({i \in DOMAIN used : IsDirHash(used[i])})
        /\ (pc = "done" /\ used = << HashT >> /\ odb0 = {HashA, HashT}) =>
                (Objs = {HashA, HashT} /\ result = << FALSE >>)

C7_Witness ==
    /\ pc = "done"
    /\ ~shallow
    /\ used = << HashT >>
    /\ odb0 = {HashA, HashT}

\* C8 (return value): when gc returns, the result is True iff fs.remove was
\* performed in this call, iff the enumeration held a hash outside
\* used_hashes; {a, b} with roots [a] returns True with only b removed, and
\* {a} with roots [a] returns False with the store unchanged.
C8_ReturnValue ==
    pc = "done" =>
        /\ result \in {<< TRUE >>, << FALSE >>}
        /\ (result = << TRUE >>) <=> (\E i \in Calls("remove") : log[i].ok)
        /\ (result = << TRUE >>) <=> (Range(order) \ used_hashes # {})
        /\ (used = << HashA >> /\ odb0 = {HashA, HashB}) =>
                (result = << TRUE >> /\ Objs = {HashA})
        /\ (used = << HashA >> /\ odb0 = {HashA}) =>
                (result = << FALSE >> /\ Objs = {HashA})

C8_Witness ==
    /\ pc = "done"
    /\ used = << HashA >>
    /\ odb0 = {HashA, HashB}
    /\ result = << TRUE >>

\* C9 (tree load failure): a failed Tree.load ends the call at once with
\* that error: odb.all, the hook and fs.remove are never called and the
\* store is unchanged, also when earlier roots were marked.
C9_LoadFailureFatal ==
    /\ (\E i \in Calls("load") : ~log[i].ok) => (pc = "raised" /\ err = "TreeLoad")
    /\ (pc = "raised" /\ err = "TreeLoad") =>
            /\ ~log[Len(log)].ok
            /\ Calls("all") = {}
            /\ Calls("hook") = {}
            /\ Calls("remove") = {}
            /\ result = << >>
            /\ Objs = odb0

C9_Witness ==
    /\ pc = "raised"
    /\ err = "TreeLoad"
    /\ idx = 2
    /\ Len(log) = 2
    /\ odb0 \ used_hashes # {}

\* C10 (fail-fast sweep): a failed hook or fs.remove for hash x ends the
\* call at once with that error and no result: x was tried once, the hashes
\* removed before x stay removed and x and every hash ordered after x are
\* still in the store.
C10_FailFast ==
    /\ (\E i \in Calls("hook") \cup Calls("remove") : ~log[i].ok) =>
            (pc = "raised" /\ err = "StorageIO")
    /\ (pc = "raised" /\ err = "StorageIO") =>
            LET n == Len(log)
            IN  /\ log[n].op \in {"hook", "remove"}
                /\ ~log[n].ok
                /\ log[n].oid = order[k]
                /\ \A i \in 1..(n - 1) : log[i].ok
                /\ Cardinality({i \in Calls(log[n].op) : log[i].oid = order[k]}) = 1
                /\ result = << >>
                /\ Objs = odb0 \ Swept
                /\ \A j \in k..Len(order) : order[j] \in Objs

C10_Witness ==
    /\ pc = "raised"
    /\ err = "StorageIO"
    /\ Swept # {}
    /\ \E j \in (k + 1)..Len(order) : order[j] \notin used_hashes

\* A gc call is running.
InCall == pc \notin {"idle", "done", "raised"}

SweepCalls == Calls("hook") \cup Calls("remove")

\* C11 (mark, then sweep): during a call used_hashes only grows; once a
\* hook or fs.remove call has been made it no longer changes; and no hook or
\* fs.remove call is made before every root has been processed.
C11_MarkThenSweep ==
    [][ /\ InCall => used_hashes \subseteq used_hashes'
        /\ (InCall /\ SweepCalls # {}) => used_hashes' = used_hashes
        /\ SweepCalls' # {} =>
              (idx' > Len(used') /\ Range(used') \subseteq used_hashes')
      ]_vars

C11_Witness ==
    /\ pc = "done"
    /\ Len(used) = 2
    /\ Calls("load") # {}
    /\ Calls("remove") # {}

\* C12 (legacy-marker hook): the hook is called only for unused
\* directory-type hashes of the enumeration, at most once each and, when the
\* call returns, exactly once each; a completed hook is followed at once by
\* fs.remove of the same hash, a failed hook by nothing; and fs.remove of a
\* directory-type hash directly follows its completed hook.
C12_HookProtocol ==
    /\ \A i \in Calls("hook") :
          /\ IsDirHash(log[i].oid)
          /\ log[i].oid \notin used_hashes
          /\ log[i].oid \in Range(order)
          /\ \A j \in Calls("hook") : log[j].oid = log[i].oid => j = i
          /\ IF log[i].ok
               THEN IF i < Len(log)
                      THEN log[i + 1].op = "remove" /\ log[i + 1].oid = log[i].oid
                      ELSE pc = "remove" /\ order[k] = log[i].oid
               ELSE i = Len(log) /\ pc = "raised"
    /\ \A i \in Calls("remove") :
          IsDirHash(log[i].oid) =>
              (i > 1 /\ log[i - 1] = Event("hook", "odb", log[i].oid, TRUE))
    /\ pc = "done" =>
          \A d \in Range(order) \ used_hashes :
              IsDirHash(d) =>
                  Cardinality({i \in Calls("hook") : log[i].oid = d}) = 1

C12_Witness ==
    /\ pc = "done"
    /\ Cardinality(Calls("hook")) = 1
    /\ \E d \in Range(order) \cap used_hashes : IsDirHash(d)
    /\ \E i \in Calls("remove") : ~IsDirHash(log[i].oid)

\* The store the caller's cache_odb argument designates.
CacheStore == IF cache_arg = << >> THEN "odb" ELSE cache_arg[1]

\* C13 (cache store): every Tree.load is made on the store passed as
\* cache_odb, or on the swept store when none is passed; every other
\* collaborator call is made on the swept store; and no step of a call
\* changes the contents of a cache store that was passed.
C13_CacheStore ==
    [][ /\ \A i \in DOMAIN log' :
              IF log'[i].op = "load"
                THEN log'[i].store = CacheStore'
                ELSE log'[i].store = "odb"
        /\ (InCall /\ cache_arg # << >>) => cacheFiles' = cacheFiles
      ]_vars

C13_Witness ==
    /\ pc = "done"
    /\ cache_arg # << >>
    /\ \E i \in Calls("load") : log[i].oid \notin odb0
    /\ Calls("remove") # {}
    /\ cacheFiles # {}

\* C14 (re-run after an abort): no call of a chain of repeated calls removes
\* a protected object of the store the chain started on; and when an earlier
\* call of the chain raised part-way through its sweep, a later call that
\* returns leaves exactly what one failure-free call on that store leaves.
C14_RerunConverges ==
    /\ expect \subseteq Objs
    /\ (aborted /\ pc = "done") => Objs = expect

C14_Witness ==
    /\ pc = "done"
    /\ aborted
    /\ result = << TRUE >>
    /\ expect # {}

\* C15 (enumeration order and jobs): when gc returns, the store, the set of
\* removed hashes and the result are functions of the store at the start,
\* the roots and the shallow flag alone: they are the same whatever order
\* odb.all yielded the hashes in and whatever jobs was passed.
C15_OrderIndependent ==
    pc = "done" =>
        /\ Objs = odb0 \cap Protected
        /\ {log[i].oid : i \in Calls("remove")} = odb0 \ Protected
        /\ result = << odb0 \ Protected # {} >>

C15_Witness ==
    /\ pc = "done"
    /\ jobs # << >>
    /\ \E i, j \in DOMAIN order :
          /\ i < j
          /\ order[i] \in used_hashes
          /\ order[j] \notin used_hashes
          /\ IsDirHash(order[i]) = IsDirHash(order[j])

\* C16 (termination): every call that has started ends, by returning or by
\* raising; the sweep position only moves forward, the sorted enumeration
\* holds no hash twice, and no hash has more than one hook call or more than
\* one fs.remove call.
C16_Terminates ==
    /\ InCall ~> (pc \in {"done", "raised"})
    /\ [](/\ \A i, j \in DOMAIN order : order[i] = order[j] => i = j
          /\ \A i, j \in SweepCalls :
                (log[i].op = log[j].op /\ log[i].oid = log[j].oid) => i = j)
    /\ [][InCall => (k' >= k /\ k' <= k + 1)]_vars

C16_Witness ==
    /\ pc = "done"
    /\ Len(used) = 2
    /\ Len(order) = 4
    /\ Cardinality(Calls("remove")) = 2
    /\ \E i \in DOMAIN order : order[i] \in used_hashes

IsPlain(h) == ~IsDirHash(h)

\* C17: sorted(hashes, key=_is_dir_hash, reverse=True) is a stable partition:
\* the directory hashes in enumeration order, then the plain hashes in
\* enumeration order; the sweep works on that list unchanged and each hook or
\* removal is at its current position k.
C17_StablePartition ==
    [][ /\ pc = "sort" =>
              order' = SelectSeq(hashes, IsDirHash) \o SelectSeq(hashes, IsPlain)
        /\ pc \in {"sweep", "remove"} => order' = order
        /\ \A i \in SweepCalls' \ SweepCalls : log'[i].oid = order[k]
      ]_vars

C17_Witness ==
    /\ pc = "done"
    /\ order = << HashU, HashT, HashB, HashA >>
    /\ Cardinality(Calls("remove")) = 3

IsLoad(e) == e.op = "load"

\* The hashes Tree.load was called on, in call order.
LoadOids ==
    LET l == SelectSeq(log, IsLoad) IN [i \in 1..Len(l) |-> l[i].oid]

\* The roots and the hashes the listings of the directory-type roots name.
OneLevel ==
    Range(used) \cup
        UNION {{TreeEntries(r)[i].oid : i \in DOMAIN TreeEntries(r)} : r \in DirRoots}

\* C18: in deep mode Tree.load is called once for each directory-type
\* occurrence in used, in order, and on nothing else; the used set is the roots
\* and the entries their listings name, so a nested directory entry is
\* protected but what only the nested directory's listing names is not.
C18_OneLevel ==
    /\ used_hashes \subseteq OneLevel
    /\ pc \in {"sort", "sweep", "remove", "done"} =>
          /\ used_hashes = (IF shallow THEN Range(used) ELSE OneLevel)
          /\ LoadOids = (IF shallow THEN << >> ELSE SelectSeq(used, IsDirHash))
    /\ pc \in {"mark", "raised"} =>
          /\ Len(LoadOids) <= Len(SelectSeq(used, IsDirHash))
          /\ \A i \in DOMAIN LoadOids : LoadOids[i] = SelectSeq(used, IsDirHash)[i]
    /\ (pc = "done" /\ ~shallow /\ used = << HashU >>) =>
          Objs = odb0 \cap {HashU, HashT, HashB}

C18_Witness ==
    /\ pc = "done"
    /\ ~shallow
    /\ used = << HashU >>
    /\ odb0 = Hashes
    /\ Objs = {HashU, HashT, HashB}
    /\ LoadOids = << HashU >>

\* The objects another process added after the enumeration was taken.
LateWrites ==
    {i \in Calls("write") : \E a \in Calls("all") : a < i}

\* C19: odb.all is called once per call, after every Tree.load and before any
\* hook or removal; sorted() has consumed the iterator before the loop body
\* runs, the loop works on that list alone, removals are of listed hashes, and
\* an object another process adds after the enumeration is never removed.
C19_Materialized ==
    [][ /\ Cardinality(Calls("all")') <= 1
        /\ pc' \in {"sort", "sweep", "remove", "done"} => Cardinality(Calls("all")') = 1
        /\ \A a \in Calls("all")' :
              /\ \A i \in Calls("load")' : i < a
              /\ \A i \in SweepCalls' : a < i
        /\ SweepCalls' # {} => (Calls("all")' # {} /\ hashes' = << >>)
        /\ pc = "sort" => (Range(order') = Range(hashes) /\ hashes' = << >>)
        /\ pc \in {"sweep", "remove"} => order' = order
        /\ \A i \in SweepCalls' : log'[i].oid \in Range(order')
        /\ \A w \in LateWrites' :
              /\ log'[w].oid \in Objs'
              /\ \A i \in Calls("remove")' : (i > w => log'[i].oid # log'[w].oid)
      ]_vars

C19_Witness ==
    /\ pc = "done"
    /\ result = << TRUE >>
    /\ \E w \in LateWrites :
          /\ log[w].oid \notin used_hashes
          /\ log[w].oid \in Objs
          /\ \E i \in Calls("remove") : i > w

\* C20: a call adds no object to the swept store (in every state of the call,
\* a raised call included, the objects are among those the call began with)
\* and changes neither the caller's used collection nor the store's
\* read_only flag.
C20_Frame ==
    [][ /\ Objs' \subseteq odb0'
        /\ InCall => /\ odbFiles' \subseteq odbFiles
                     /\ used' = used
                     /\ read_only' = read_only
        /\ ~InCall => (odbFiles' = odbFiles /\ read_only' = read_only)
      ]_vars

C20_Witness ==
    /\ pc = "raised"
    /\ err = "StorageIO"
    /\ used # << >>
    /\ Objs # odb0
    /\ Objs \subseteq odb0

GCalls(op) == {i \in DOMAIN glog : glog[i].op = op}

\* The references under refs/heads/.
LocalBranches == {RefMain, RefDev}

\* HEAD as detach_head leaves it: the reference of entry, symbolic when that
\* is a local branch.
HeadRestored ==
    /\ head.target = head0.target
    /\ head.symbolic = (head0.target \in LocalBranches)

\* C21: in detach_head the checkout precedes the body; once the body has
\* finished, normally or by raising, the next backend call is the one
\* set_ref("HEAD") of the operation, to the reference HEAD held on entry and
\* symbolic exactly when that is a local branch; when set_ref returns, HEAD
\* is that reference again and reset() is called next; a context left
\* normally or by the body's exception has HEAD restored and reset called.
C21_DetachRestores ==
    gop = "detach_head" =>
        /\ Cardinality(GCalls("set_ref")) <= 1
        /\ \A i \in GCalls("yield") :
              i = 2 /\ glog[1] = GEvent("checkout", rev, FALSE, TRUE)
        /\ \A i \in GCalls("body_end") :
              /\ GCalls("yield") # {}
              /\ gpc # "finally" =>
                    /\ i + 1 \in GCalls("set_ref")
                    /\ glog[i + 1].arg = head0.target
                    /\ glog[i + 1].sym = (head0.target \in LocalBranches)
        /\ \A i \in GCalls("set_ref") :
              /\ i - 1 \in GCalls("body_end")
              /\ glog[i].ok =>
                    /\ HeadRestored
                    /\ gpc # "reset" => i + 1 \in GCalls("reset")
        /\ \A i \in GCalls("reset") : i - 1 \in GCalls("set_ref")
        /\ (gpc = "exited" \/ (gpc = "raised" /\ gerr = "body")) =>
              /\ HeadRestored
              /\ \E i \in GCalls("reset") : glog[i].ok /\ glog[i - 1].ok
              /\ Cardinality(GCalls("set_ref")) = 1

C21_Witness ==
    /\ gop = "detach_head"
    /\ gpc = "raised"
    /\ gerr = "body"
    /\ head0 = [symbolic |-> TRUE, target |-> RefMain]
    /\ head = head0
    /\ yielded = << Commit2 >>
    /\ Len(glog) = 5

\* What stash.push() returned to stash_workspace: << >> for None.
Pushed == glog[1].arg

\* C22: stash_workspace yields what stash.push() returned; once the body has
\* finished, normally or by raising, stash.pop() has been called exactly once
\* if push returned a revision and not at all if it returned None; pop is
\* never called before the body has finished.
C22_PushPopPaired ==
    (gop = "stash_workspace" /\ glog[1].ok) =>
        /\ glog[1].op = "push"
        /\ glog[2] = GEvent("yield", Pushed, FALSE, TRUE)
        /\ yielded = << Pushed >>
        /\ Cardinality(GCalls("pop")) <= 1
        /\ \A i \in GCalls("pop") : i - 1 \in GCalls("body_end")
        /\ \A i \in GCalls("body_end") :
              gpc # "finally" =>
                  (Pushed # << >> <=> Cardinality(GCalls("pop")) = 1)
        /\ Pushed = << >> => GCalls("pop") = {}
        /\ gpc \in {"exited", "raised"} => GCalls("body_end") # {}

C22_Witness ==
    /\ gop = "stash_workspace"
    /\ gpc = "raised"
    /\ gerr = "body"
    /\ yielded = << StashB >>
    /\ Cardinality(GCalls("pop")) = 1
    /\ dirty

\* The first-parent chain from commit c, newest first, down to the root.
RECURSIVE FirstParentChain(_)
FirstParentChain(c) ==
    IF Parents(c) = << >> THEN << c >>
    ELSE << c >> \o FirstParentChain(Head(Parents(c)))

\* C23 as claimed: branch_revs yields the first-parent chain of the resolved
\* branch commit from its tip, ends at a commit with no parent or at the
\* commit whose first parent is end_rev, and never yields end_rev.
C23_BranchRevs ==
    (gop = "branch_revs" /\ gpc = "exited") =>
        /\ yielded # << >>
        /\ yielded[1] = ResolveRev(glog[1].arg, head0)
        /\ \A i \in 1..(Len(yielded) - 1) :
              yielded[i + 1] = First(Parents(yielded[i]))
        /\ LET last == yielded[Len(yielded)]
           IN  \/ Parents(last) = << >>
               \/ First(Parents(last)) = end_rev
        /\ end_rev # << >> => end_rev \notin Range(yielded)

\* The same without the last clause, and with what the code does when
\* end_rev is not a proper first-parent ancestor of the tip: the whole chain
\* down to the root is yielded.
C23_BranchRevsFromParents ==
    (gop = "branch_revs" /\ gpc = "exited") =>
        LET tip == ResolveRev(glog[1].arg, head0)
            chain == FirstParentChain(tip)
            stops == {i \in 2..Len(chain) : chain[i] = end_rev}
        IN  yielded = IF stops = {} THEN chain
                      ELSE SubSeq(chain, 1, (CHOOSE i \in stops : TRUE) - 1)

C23_Reached ==
    /\ gop = "branch_revs"
    /\ gpc = "exited"
    /\ end_rev = Commit4
    /\ yielded = << Commit4, Commit3, Commit2, Commit1 >>

====
